---- MODULE Spec2Model ----
(***************************************************************************)
(* pathext (src/pathext/core.py): the extension-to-MIME registry that      *)
(* PathExt._load fills from the MIME-globs file, the extension resolver    *)
(* PathExt.extension, the MIME lookup PathExt.mime and the classifiers     *)
(* is_compressed / is_video / is_audio / is_font.                          *)
(*                                                                         *)
(* A Python str is a sequence of one-character strings, so that split,     *)
(* strip, startswith and the substring test `in` are computed, not         *)
(* assumed.  A Python value is a record [t, v]: t is the type tag.         *)
(***************************************************************************)
EXTENDS Integers, Sequences, FiniteSets, TLC

\* Longest MIME-globs file of the load specification, in lines.
MaxLines == 3
\* Longest MIME-globs file of the query specification, in lines.
MaxQLines == 2
\* Number of load steps (PathExt._load runs) a behaviour takes.
MaxLoads == 2

----------------------------------------------------------------------------
\* Python values.

PyNone == [t |-> "None", v |-> <<>>]
PyBool(b) == [t |-> "bool", v |-> b]
PyStr(s) == [t |-> "str", v |-> s]
PyList(l) == [t |-> "list", v |-> l]
\* An exception leaving the operation.
PyRaise(e) == [t |-> "raise", v |-> e]

Range(s) == {s[i] : i \in DOMAIN s}

----------------------------------------------------------------------------
\* str methods.

\* s.split(sep), sep one character: the fields between the separators.
RECURSIVE split(_, _)
split(s, sep) ==
    IF \A i \in 1..Len(s) : s[i] # sep
    THEN <<s>>
    ELSE LET i == CHOOSE k \in 1..Len(s) :
                      s[k] = sep /\ \A j \in 1..(k - 1) : s[j] # sep
         IN  <<SubSeq(s, 1, i - 1)>> \o split(SubSeq(s, i + 1, Len(s)), sep)

\* s.lstrip(c)
RECURSIVE lstrip(_, _)
lstrip(s, c) ==
    IF Len(s) > 0 /\ Head(s) = c THEN lstrip(Tail(s), c) ELSE s

\* s.rstrip(c)
RECURSIVE rstrip(_, _)
rstrip(s, c) ==
    IF Len(s) > 0 /\ s[Len(s)] = c
    THEN rstrip(SubSeq(s, 1, Len(s) - 1), c)
    ELSE s

\* s.strip(c): c removed from both ends.
strip(s, c) == rstrip(lstrip(s, c), c)

\* s.startswith(c), c one character.
startswith(s, c) == Len(s) > 0 /\ Head(s) = c

\* `a in b` for two str: a is a substring of b.
IsSubstr(a, b) ==
    \E i \in 0..(Len(b) - Len(a)) : SubSeq(b, i + 1, i + Len(a)) = a

\* ''.join(l)
RECURSIVE join(_)
join(l) == IF Len(l) = 0 THEN <<>> ELSE Head(l) \o join(Tail(l))

----------------------------------------------------------------------------
\* The strings the inputs are made of.

ext_gz == <<".", "g", "z">>
ext_tar == <<".", "t", "a", "r">>
ext_tar_gz == <<".", "t", "a", "r", ".", "g", "z">>
ext_mp4 == <<".", "m", "p", "4">>
ext_lz == <<".", "l", "z">>

mime_gzip == <<"a", "/", "g", "z", "i", "p">>
mime_tar == <<"a", "/", "t", "a", "r">>
mime_ctar == <<"a", "/", "c", "t", "a", "r">>
mime_video_mp4 == <<"v", "i", "d", "e", "o", "/", "m", "p", "4">>
mime_m4v == <<"x", "/", "m", "4", "v">>
mime_lzip == <<"a", "/", "l", "z", "i", "p">>

\* The line "mime:*ext" of the MIME-globs file.
GlobLine(mime, ext) == mime \o <<":", "*">> \o ext

\* Lines of the form mime:*ext.
WellFormedLines ==
    { GlobLine(mime_gzip, ext_gz),
      GlobLine(mime_ctar, ext_tar_gz),
      GlobLine(mime_tar, ext_tar),
      GlobLine(mime_video_mp4, ext_mp4),
      GlobLine(mime_m4v, ext_mp4),
      GlobLine(mime_lzip, ext_lz) }

\* Non-empty, non-comment lines with no ':' and with two ':'.
MalformedLines ==
    { <<"b", "a", "d">>,
      <<"a", ":", "b", ":", "c">> }

\* A comment line and a blank line.
SkippedLines == { <<"#", "c">>, <<>> }

\* All sequences over S of length at most n.
SeqsUpTo(S, n) == UNION { [1..k -> S] : k \in 0..n }

----------------------------------------------------------------------------
VARIABLES
    mime_globs_file,   \* /usr/share/mime/globs: [is_file, lines]
    _ext2mime_map,     \* PathExt._ext2mime_map: extension -> list of MIME types
    _mime2ext_map,     \* PathExt._mime2ext_map: MIME type -> list of extensions
    self,              \* the PathExt last constructed: [name, file], or NoPath
    result,            \* the last operation: [op, args, val]
    loads              \* load steps taken so far

vars == <<mime_globs_file, _ext2mime_map, _mime2ext_map, self, result, loads>>

\* No PathExt constructed yet.
NoPath == [name |-> <<>>, file |-> [kind |-> "none", access |-> FALSE, sniff |-> "text"]]
NoResult == [op |-> "", args |-> <<>>, val |-> PyNone]

\* A dict with no key.
EmptyDict == <<>>

----------------------------------------------------------------------------
\* PathExt._load

\* LoadLine with the MIME type of an extension already registered dropped
\* instead of appended.
LoadLine_first_mime_only(reg, ln) ==
    IF ~(Len(ln) > 0 /\ ~startswith(ln, "#"))
    THEN reg
    ELSE LET fields == split(ln, ":") IN
         IF Len(fields) # 2
         THEN [reg EXCEPT !.exc = "ValueError"]
         ELSE LET mime == fields[1]
                  ext == strip(fields[2], "*")
                  e2m == IF ext \in DOMAIN reg.e2m
                         THEN reg.e2m
                         ELSE reg.e2m @@ (ext :> <<mime>>)
                  m2e == IF mime \in DOMAIN reg.m2e
                         THEN [reg.m2e EXCEPT ![mime] = Append(@, ext)]
                         ELSE reg.m2e @@ (mime :> <<ext>>)
              IN  [e2m |-> e2m, m2e |-> m2e, exc |-> ""]

\* LoadLine with the MIME type appended to the list of a registered
\* extension without the membership test.
LoadLine_always_append(reg, ln) ==
    IF ~(Len(ln) > 0 /\ ~startswith(ln, "#"))
    THEN reg
    ELSE LET fields == split(ln, ":") IN
         IF Len(fields) # 2
         THEN [reg EXCEPT !.exc = "ValueError"]
         ELSE LET mime == fields[1]
                  ext == strip(fields[2], "*")
                  e2m == IF ext \in DOMAIN reg.e2m
                         THEN [reg.e2m EXCEPT ![ext] = Append(@, mime)]
                         ELSE reg.e2m @@ (ext :> <<mime>>)
                  m2e == IF mime \in DOMAIN reg.m2e
                         THEN [reg.m2e EXCEPT ![mime] = Append(@, ext)]
                         ELSE reg.m2e @@ (mime :> <<ext>>)
              IN  [e2m |-> e2m, m2e |-> m2e, exc |-> ""]

\* The body of the loop over the lines, for one line.  A registry is
\* [e2m, m2e, exc]; exc names the exception that left the loop, "" for none.
LoadLine(reg, ln) ==
    IF ~(Len(ln) > 0 /\ ~startswith(ln, "#"))
    THEN reg
    ELSE LET fields == split(ln, ":") IN
         IF Len(fields) # 2
         THEN \* mime, ext = ln.split(':') cannot unpack
              [reg EXCEPT !.exc = "ValueError"]
         ELSE LET mime == fields[1]
                  ext == strip(fields[2], "*")
                  e2m == IF ext \in DOMAIN reg.e2m
                         THEN IF mime \notin Range(reg.e2m[ext])
                              THEN [reg.e2m EXCEPT ![ext] = Append(@, mime)]
                              ELSE reg.e2m
                         ELSE reg.e2m @@ (ext :> <<mime>>)
                  m2e == IF mime \in DOMAIN reg.m2e
                         THEN [reg.m2e EXCEPT ![mime] = Append(@, ext)]
                         ELSE reg.m2e @@ (mime :> <<ext>>)
              IN  [e2m |-> e2m, m2e |-> m2e, exc |-> ""]

\* for ln in lines: the loop stops at the first line that raises.
RECURSIVE LoadLines(_, _)
LoadLines(reg, lines) ==
    IF Len(lines) = 0 \/ reg.exc # ""
    THEN reg
    ELSE LoadLines(LoadLine(reg, Head(lines)), Tail(lines))

\* The registry PathExt._load leaves: the file is read and every line
\* applied on each call; a missing file leaves the tables as they are.
LoadRegistry(globs, e2m, m2e) ==
    IF globs.is_file
    THEN LoadLines([e2m |-> e2m, m2e |-> m2e, exc |-> ""], globs.lines)
    ELSE [e2m |-> e2m, m2e |-> m2e, exc |-> ""]

\* cls._load() called on the class.
_load ==
    /\ loads < MaxLoads
    /\ \E reg \in {LoadRegistry(mime_globs_file, _ext2mime_map, _mime2ext_map)} :
          /\ _ext2mime_map' = reg.e2m
          /\ _mime2ext_map' = reg.m2e
          /\ result' = [op |-> "_load", args |-> <<>>,
                        val |-> IF reg.exc = "" THEN PyNone ELSE PyRaise(reg.exc)]
    /\ loads' = loads + 1
    /\ UNCHANGED <<mime_globs_file, self>>

\* PathExt(path), for a path of the set paths: __new__ runs cls._load() and
\* then builds the path object; an exception of _load leaves __new__ before
\* the object exists.
__new__(paths) ==
    /\ loads < MaxLoads
    /\ \E reg \in {LoadRegistry(mime_globs_file, _ext2mime_map, _mime2ext_map)} :
          /\ _ext2mime_map' = reg.e2m
          /\ _mime2ext_map' = reg.m2e
          /\ result' = [op |-> "__new__", args |-> <<>>,
                        val |-> IF reg.exc = "" THEN PyNone ELSE PyRaise(reg.exc)]
          /\ IF reg.exc = ""
             THEN \E path \in paths : self' = path
             ELSE self' = self
    /\ loads' = loads + 1
    /\ UNCHANGED mime_globs_file

----------------------------------------------------------------------------
\* The load specification: any MIME-globs file of at most MaxLines lines,
\* loaded by _load and by constructions.

name_README == <<"R", "E", "A", "D", "M", "E">>

LoadPaths ==
    { [name |-> name_README,
       file |-> [kind |-> "file", access |-> TRUE, sniff |-> "text"]] }

InitLoad ==
    /\ mime_globs_file \in
         { [is_file |-> TRUE, lines |-> l] :
             l \in SeqsUpTo(WellFormedLines \cup MalformedLines \cup SkippedLines,
                            MaxLines) }
         \cup { [is_file |-> FALSE, lines |-> <<>>] }
    /\ _ext2mime_map = EmptyDict
    /\ _mime2ext_map = EmptyDict
    /\ self = NoPath
    /\ result = NoResult
    /\ loads = 0

NextLoad ==
    \/ _load
    \/ __new__(LoadPaths)

SpecLoad == InitLoad /\ [][NextLoad]_vars

----------------------------------------------------------------------------
\* pathlib's name properties, as PathExt inherits them.

\* PurePath.suffixes: no suffix for a name ending in '.', else the leading
\* dots are dropped and every field after the first is a suffix.
suffixes(name) ==
    IF Len(name) > 0 /\ name[Len(name)] = "."
    THEN <<>>
    ELSE LET parts == split(lstrip(name, "."), ".") IN
         [i \in 1..(Len(parts) - 1) |-> <<".">> \o parts[i + 1]]

\* PurePath.suffix: the text from the last dot, unless that dot is the
\* first or the last character.
suffix(name) ==
    LET dots == {i \in 1..Len(name) : name[i] = "."} IN
    IF dots = {}
    THEN <<>>
    ELSE LET i == CHOOSE k \in dots : \A j \in dots : j <= k IN
         IF 1 < i /\ i < Len(name) THEN SubSeq(name, i, Len(name)) ELSE <<>>

----------------------------------------------------------------------------
\* The file behind a path, as the operating system and the binary sniffer
\* answer for it.  kind is what the path is once symlinks are resolved
\* (resolve()): a regular file, a directory, or nothing (a missing path, a
\* dangling link).  access is os.access for reading.  sniff is what
\* binaryornot's is_binary does on the resolved path: "binary", "text", or
\* "error" where opening it fails.  On a directory the library either lets
\* the error of open() through or reports it and answers False, depending
\* on its version: both outcomes are kept.

Files ==
    { [kind |-> "file", access |-> a, sniff |-> s] :
        a \in BOOLEAN, s \in {"binary", "text"} }
    \cup { [kind |-> "dir", access |-> TRUE, sniff |-> s] : s \in {"text", "error"} }
    \cup { [kind |-> "dir", access |-> FALSE, sniff |-> "error"],
           [kind |-> "none", access |-> FALSE, sniff |-> "text"] }

\* PathExt.is_readable
is_readable(f) ==
    IF f.kind = "file" \/ f.kind = "dir" THEN f.access ELSE FALSE

\* PathExt.is_binary: is_readable and is_binary(str(resolve())); the sniffer
\* runs only on a readable path, and its error leaves the property.
is_binary(f) ==
    IF ~is_readable(f)
    THEN PyBool(FALSE)
    ELSE IF f.sniff = "error"
         THEN PyRaise("OSError")
         ELSE PyBool(f.sniff = "binary")

----------------------------------------------------------------------------
\* PathExt._decompress_cmd_map: extension -> command template.  A template
\* is the sequence of its parts as str.format reads it: literal text, and
\* "{}" for the replacement field.
DecompressEntries ==
    {
      <<<<".", "7", "z">>, <<"7z -mmt2 x \"", "{}", "\"">>>>,
      <<<<".", "Z">>, <<"uncompress.real \"", "{}", "\"">>>>,
      <<<<".", "a", "c", "e">>, <<>>>>,
      <<<<".", "a", "r">>, <<>>>>,
      <<<<".", "a", "r", "j">>, <<>>>>,
      <<<<".", "a", "r", "z">>, <<>>>>,
      <<<<".", "b", "z", "2">>, <<"pbzip2 -d  \"", "{}", "\" ">>>>,
      <<<<".", "b", "z">>, <<"pbzip2 -d  \"", "{}", "\" ">>>>,
      <<<<".", "b", "z", "i", "p", "2">>, <<"pbzip2 -d \"", "{}", "\" ">>>>,
      <<<<".", "g", "z">>, <<"unpigz -p4 \"", "{}", "\" ">>>>,
      <<<<".", "g", "z", "i", "p">>, <<"unpigz -p 4 \"", "{}", "\" ">>>>,
      <<<<".", "l", "r", "z">>, <<>>>>,
      <<<<".", "l", "z">>, <<>>>>,
      <<<<".", "l", "z", "4">>, <<>>>>,
      <<<<".", "l", "z", "h">>, <<>>>>,
      <<<<".", "l", "z", "i", "p">>, <<>>>>,
      <<<<".", "l", "z", "m", "a">>, <<>>>>,
      <<<<".", "l", "z", "o">>, <<>>>>,
      <<<<".", "p", "e", "a">>, <<>>>>,
      <<<<".", "r", "a", "r">>, <<"rar x \"", "{}", "\"">>>>,
      <<<<".", "t", "Z">>, <<>>>>,
      <<<<".", "t", "a", "r">>, <<"tar -xf \"", "{}", "\"">>>>,
      <<<<".", "t", "a", "r", ".", "Z">>, <<"tar --use-comppress-program=\"uncompress.real\" -xf \"", "{}", "\"">>>>,
      <<<<".", "t", "a", "r", ".", "b", "z">>, <<"tar   --use-compress-program=pbzip2 -xf">>>>,
      <<<<".", "t", "a", "r", ".", "b", "z", "2">>, <<"tar  --use-compress-program=pbzip2 -xjf \"", "{}", "\"">>>>,
      <<<<".", "t", "a", "r", ".", "b", "z", "i", "p">>, <<>>>>,
      <<<<".", "t", "a", "r", ".", "b", "z", "i", "p", "2">>, <<"tar -xjf \"", "{}", "\"">>>>,
      <<<<".", "t", "a", "r", ".", "g", "z">>, <<"tar -xzf \"", "{}", "\"">>>>,
      <<<<".", "t", "a", "r", ".", "l", "r", "z">>, <<>>>>,
      <<<<".", "t", "a", "r", ".", "l", "z">>, <<>>>>,
      <<<<".", "t", "a", "r", ".", "l", "z", "4">>, <<>>>>,
      <<<<".", "t", "a", "r", ".", "l", "z", "i", "p">>, <<"tar --lzip -xf \"", "{}", "\"">>>>,
      <<<<".", "t", "a", "r", ".", "l", "z", "m", "a">>, <<"tar --lzma -xf \"", "{}", "\"">>>>,
      <<<<".", "t", "a", "r", ".", "l", "z", "o">>, <<>>>>,
      <<<<".", "t", "a", "r", ".", "x", "z">>, <<"tar --xz -xf \"", "{}", "\"">>>>,
      <<<<".", "t", "a", "r", ".", "z">>, <<>>>>,
      <<<<".", "t", "a", "r", ".", "z", "s", "t">>, <<>>>>,
      <<<<".", "t", "a", "r", ".", "z", "s", "t", "d">>, <<"tar --zstd -xf \"", "{}", "\"">>>>,
      <<<<".", "t", "a", "r", "b", "z", "2">>, <<"tar --use-compress-program=\"lbzip2\" -xf \"", "{}", "\"">>>>,
      <<<<".", "t", "a", "z">>, <<>>>>,
      <<<<".", "t", "b", "z">>, <<"tar -xjf \"", "{}", "\"">>>>,
      <<<<".", "t", "b", "z", "2">>, <<"tar -xjf \"", "{}", "\"">>>>,
      <<<<".", "t", "g", "z">>, <<"tar -xzf \"", "{}", "\"">>>>,
      <<<<".", "t", "l", "r", "z">>, <<>>>>,
      <<<<".", "t", "l", "z">>, <<>>>>,
      <<<<".", "t", "x", "z">>, <<>>>>,
      <<<<".", "t", "z">>, <<>>>>,
      <<<<".", "t", "z", "s", "t">>, <<>>>>,
      <<<<".", "w", "m", "z">>, <<>>>>,
      <<<<".", "x", "z">>, <<"xz --decompress \"", "{}", "\"">>>>,
      <<<<".", "z", "i", "p">>, <<"unzip \"", "{}", "\"">>>>,
      <<<<".", "z", "i", "p", "x">>, <<>>>>,
      <<<<".", "z", "z">>, <<>>>> }

_decompress_cmd_map ==
    [k \in {e[1] : e \in DecompressEntries} |->
        (CHOOSE e \in DecompressEntries : e[1] = k)[2]]

----------------------------------------------------------------------------
\* The resolver and the classifiers.

\* PathExt.extension: every suffix of the name that is itself a key of
\* _ext2mime_map, concatenated in order.
RECURSIVE extension_loop(_, _, _)
extension_loop(file_ext, sfx, e2m) ==
    IF Len(sfx) = 0
    THEN file_ext
    ELSE extension_loop(IF Head(sfx) \in DOMAIN e2m
                        THEN file_ext \o Head(sfx)
                        ELSE file_ext,
                        Tail(sfx), e2m)

extension(path, e2m) == extension_loop(<<>>, suffixes(path.name), e2m)

\* PathExt.exts: the path is resolved (is_symlink, a bound method there, is
\* always true) and only a regular file has a value.
exts(path) ==
    IF path.file.kind = "file"
    THEN LET sfx == suffixes(path.name) IN
         IF ext_tar \in Range(sfx)
         THEN \* ''.join(suffixes[-2:]): the last two, or the only one
              PyStr(join(SubSeq(sfx, IF Len(sfx) > 1 THEN Len(sfx) - 1 ELSE 1,
                                Len(sfx))))
         ELSE PyStr(suffix(path.name))
    ELSE PyNone

\* PathExt.mime: the one MIME type of the extension as a str, several as the
\* list, None for an extension that is no key.
mime(path, e2m) ==
    LET file_ext == extension(path, e2m) IN
    IF file_ext \notin DOMAIN e2m
    THEN PyNone
    ELSE IF Len(e2m[file_ext]) = 1
         THEN PyStr(e2m[file_ext][1])
         ELSE PyList(e2m[file_ext])

\* x in m, for m a str (substring) or a list (an element equal to x).
In(x, m) ==
    IF m.t = "str" THEN IsSubstr(x, m.v) ELSE \E i \in DOMAIN m.v : m.v[i] = x

\* is_compressed with an empty command template taken for "not an archive".
is_compressed_with_command(path, e2m) ==
    LET b == is_binary(path.file)
        file_ext == extension(path, e2m)
    IN  IF b.t = "raise" THEN b
        ELSE IF ~b.v THEN PyBool(FALSE)
        ELSE PyBool(/\ file_ext \in DOMAIN _decompress_cmd_map
                    /\ _decompress_cmd_map[file_ext] # <<>>)

\* PathExt.is_compressed
is_compressed(path, e2m) ==
    LET b == is_binary(path.file) IN
    IF b.t = "raise" THEN b
    ELSE IF ~b.v THEN PyBool(FALSE)
    ELSE PyBool(extension(path, e2m) \in DOMAIN _decompress_cmd_map)

\* is_video, is_audio, is_font:
\*   is_binary and (extension.strip('.') in mime or literal in mime)
\* `in` on None raises TypeError.
is_kind(path, e2m, literal) ==
    LET b == is_binary(path.file)
        m == mime(path, e2m)
    IN  IF b.t = "raise" THEN b
        ELSE IF ~b.v THEN PyBool(FALSE)
        ELSE IF m.t = "None" THEN PyRaise("TypeError")
        ELSE PyBool(In(strip(extension(path, e2m), "."), m) \/ In(literal, m))

\* PathExt.is_video
is_video(path, e2m) == is_kind(path, e2m, <<"v", "i", "d", "e", "o">>)

\* PathExt.is_audio
is_audio(path, e2m) == is_kind(path, e2m, <<"a", "u", "d", "i", "o">>)

\* PathExt.is_font
is_font(path, e2m) == is_kind(path, e2m, <<"f", "o", "n", "t">>)

\* The properties, read on the path last constructed.

query_frame == <<mime_globs_file, _ext2mime_map, _mime2ext_map, self, loads>>

Get_extension ==
    /\ self # NoPath
    /\ result' = [op |-> "extension", args |-> <<>>, val |-> PyStr(extension(self, _ext2mime_map))]
    /\ UNCHANGED query_frame

Get_exts ==
    /\ self # NoPath
    /\ result' = [op |-> "exts", args |-> <<>>, val |-> exts(self)]
    /\ UNCHANGED query_frame

Get_mime ==
    /\ self # NoPath
    /\ result' = [op |-> "mime", args |-> <<>>, val |-> mime(self, _ext2mime_map)]
    /\ UNCHANGED query_frame

Get_is_readable ==
    /\ self # NoPath
    /\ result' = [op |-> "is_readable", args |-> <<>>, val |-> PyBool(is_readable(self.file))]
    /\ UNCHANGED query_frame

Get_is_binary ==
    /\ self # NoPath
    /\ result' = [op |-> "is_binary", args |-> <<>>, val |-> is_binary(self.file)]
    /\ UNCHANGED query_frame

Get_is_compressed ==
    /\ self # NoPath
    /\ result' = [op |-> "is_compressed", args |-> <<>>, val |-> is_compressed(self, _ext2mime_map)]
    /\ UNCHANGED query_frame

Get_is_video ==
    /\ self # NoPath
    /\ result' = [op |-> "is_video", args |-> <<>>, val |-> is_video(self, _ext2mime_map)]
    /\ UNCHANGED query_frame

Get_is_audio ==
    /\ self # NoPath
    /\ result' = [op |-> "is_audio", args |-> <<>>, val |-> is_audio(self, _ext2mime_map)]
    /\ UNCHANGED query_frame

Get_is_font ==
    /\ self # NoPath
    /\ result' = [op |-> "is_font", args |-> <<>>, val |-> is_font(self, _ext2mime_map)]
    /\ UNCHANGED query_frame

----------------------------------------------------------------------------
\* The query specification: a MIME-globs file of at most MaxQLines
\* well-formed lines, paths constructed and their properties read.

name_d_tar_gz == <<"d">> \o ext_tar_gz
name_v_mp4 == <<"v">> \o ext_mp4
name_a_lz == <<"a">> \o ext_lz

Names == {name_README, name_d_tar_gz, name_v_mp4, name_a_lz}

Paths == { [name |-> n, file |-> f] : n \in Names, f \in Files }

Init ==
    /\ mime_globs_file \in
         { [is_file |-> TRUE, lines |-> l] : l \in SeqsUpTo(WellFormedLines, MaxQLines) }
         \cup { [is_file |-> FALSE, lines |-> <<>>] }
    /\ _ext2mime_map = EmptyDict
    /\ _mime2ext_map = EmptyDict
    /\ self = NoPath
    /\ result = NoResult
    /\ loads = 0

Next ==
    \/ __new__(Paths)
    \/ _load
    \/ Get_extension
    \/ Get_exts
    \/ Get_mime
    \/ Get_is_readable
    \/ Get_is_binary
    \/ Get_is_compressed
    \/ Get_is_video
    \/ Get_is_audio
    \/ Get_is_font

Spec == Init /\ [][Next]_vars

----------------------------------------------------------------------------
\* decompression_command(extension, path): the template of the extension
\* with the path in its replacement field; absent (None) for an extension
\* that is no key and for an empty template.

\* template.format(arg), on the parts of the template.
format(template, arg) ==
    [i \in DOMAIN template |-> IF template[i] = "{}" THEN arg ELSE template[i]]

decompression_command(ext, path) ==
    IF ext \notin DOMAIN _decompress_cmd_map
    THEN PyNone
    ELSE IF _decompress_cmd_map[ext] = <<>>
         THEN PyNone
         ELSE PyStr(format(_decompress_cmd_map[ext], path))

Get_decompression_command(ext, path) ==
    /\ result' = [op |-> "decompression_command", args |-> <<ext, path>>,
                  val |-> decompression_command(ext, path)]
    /\ UNCHANGED query_frame

\* The command specification: decompression_command on every key of the
\* table and on an extension that is no key.

ext_xyz == <<".", "x", "y", "z">>

CmdExts == DOMAIN _decompress_cmd_map \cup {ext_xyz}

CmdPaths == {"/tmp/a.gz", "b.tar.bz", "c d.zip"}

InitCmd ==
    /\ mime_globs_file = [is_file |-> FALSE, lines |-> <<>>]
    /\ _ext2mime_map = EmptyDict
    /\ _mime2ext_map = EmptyDict
    /\ self = NoPath
    /\ result = NoResult
    /\ loads = 0

NextCmd == \E ext \in CmdExts, path \in CmdPaths : Get_decompression_command(ext, path)

SpecCmd == InitCmd /\ [][NextCmd]_vars

----------------------------------------------------------------------------
\* The claims.

IsTrue(x) == x.t = "bool" /\ x.v
IsFalse(x) == x.t = "bool" /\ ~x.v
Raised(x) == x.t = "raise"

\* The file is a readable regular file that the sniffer finds binary.
ConfirmedBinary(f) == f.kind = "file" /\ f.access /\ f.sniff = "binary"

\* The longest chain of suffixes of the name, from some position to the end,
\* that is one key of e2m; the empty string when no chain is.
LongestRegisteredChain(name, e2m) ==
    LET sfx == suffixes(name)
        chain(i) == join(SubSeq(sfx, i, Len(sfx)))
        hits == {i \in 1..Len(sfx) : chain(i) \in DOMAIN e2m}
    IN  IF hits = {}
        THEN <<>>
        ELSE chain(CHOOSE i \in hits : \A j \in hits : i <= j)

\* C1: extension (resolve_extension) returns the longest chain of the
\* name's suffixes running to the end of the name that is one key of
\* extension_to_mime, and the empty string when no chain is a key.
C1_LongestChain ==
    result.op = "extension" =>
        result.val = PyStr(LongestRegisteredChain(self.name, _ext2mime_map))

\* C2: once a first load has returned, a further load step leaves both
\* tables exactly as they are.
C2_IdempotentLoad ==
    [][(loads >= 1 /\ ~Raised(result.val)) =>
          (/\ _ext2mime_map' = _ext2mime_map
           /\ _mime2ext_map' = _mime2ext_map)]_vars

\* C3: is_compressed is true exactly when the file is confirmed binary and
\* the resolved extension is a key of the decompression command table, its
\* template empty or not; on a non-binary regular file it is false.
C3_IsCompressed ==
    result.op = "is_compressed" =>
        /\ IsTrue(result.val) <=>
              (/\ ConfirmedBinary(self.file)
               /\ extension(self, _ext2mime_map) \in {e[1] : e \in DecompressEntries})
        /\ (self.file.kind = "file" /\ self.file.sniff = "text") =>
              IsFalse(result.val)

\* C3, its case: is_compressed answered true for an extension whose command
\* template is empty.
C3_Witness ==
    /\ result.op = "is_compressed"
    /\ IsTrue(result.val)
    /\ \E e \in DecompressEntries :
          e[1] = extension(self, _ext2mime_map) /\ e[2] = <<>>

\* The MIME types registered for the resolved extension of the path.
LookedUp(path, e2m) ==
    LET file_ext == extension(path, e2m) IN
    IF file_ext \in DOMAIN e2m THEN Range(e2m[file_ext]) ELSE {}

Literal(op) ==
    CASE op = "is_video" -> <<"v", "i", "d", "e", "o">>
      [] op = "is_audio" -> <<"a", "u", "d", "i", "o">>
      [] op = "is_font" -> <<"f", "o", "n", "t">>

\* C4: on a binary file is_video (is_audio, is_font) is true exactly when
\* the resolved extension without its dot, or the literal "video" ("audio",
\* "font"), is a substring of one of the looked-up MIME types, each type of
\* a list tested on its own.
C4_EachMimeTested ==
    (result.op \in {"is_video", "is_audio", "is_font"} /\ ConfirmedBinary(self.file)) =>
        (IsTrue(result.val) <=>
            \E m \in LookedUp(self, _ext2mime_map) :
                \/ IsSubstr(strip(extension(self, _ext2mime_map), "."), m)
                \/ IsSubstr(Literal(result.op), m))

\* C5: where file access itself succeeds, the resolver, the lookup and the
\* classifiers return a value and do not raise; on a binary file whose
\* resolved extension has no MIME entry is_video, is_audio and is_font are
\* false.
C5_AbsenceNeverRaises ==
    /\ (/\ result.op \in {"extension", "mime", "is_compressed",
                          "is_video", "is_audio", "is_font"}
        /\ ~(is_readable(self.file) /\ self.file.sniff = "error"))
          => ~Raised(result.val)
    /\ (/\ result.op \in {"is_video", "is_audio", "is_font"}
        /\ ConfirmedBinary(self.file)
        /\ LookedUp(self, _ext2mime_map) = {})
          => IsFalse(result.val)

\* C6: on a regular file that access is denied to, so that it cannot be
\* sniffed, a classifier does not answer false: an access error reaches the
\* caller.
C6_AccessErrorSurfaces ==
    (/\ result.op \in {"is_compressed", "is_video", "is_audio", "is_font"}
     /\ self.file.kind = "file"
     /\ ~self.file.access)
       => Raised(result.val)

\* C7: for a key of the decompression command table with a non-empty
\* template the command holds the path given; for an empty template and for
\* an extension that is no key the command is absent.
C7_CommandHoldsPath ==
    result.op = "decompression_command" =>
        LET ext == result.args[1]
            path == result.args[2]
            known == {e \in DecompressEntries : e[1] = ext /\ e[2] # <<>>}
        IN  IF known # {}
            THEN result.val.t = "str" /\ path \in Range(result.val.v)
            ELSE result.val.t = "None"

\* A line mime:*ext: not blank, not a comment, exactly one ':'.
Colons(ln) == {i \in 1..Len(ln) : ln[i] = ":"}
IsWellFormed(ln) ==
    Len(ln) > 0 /\ ln[1] # "#" /\ Cardinality(Colons(ln)) = 1
IsMalformed(ln) ==
    Len(ln) > 0 /\ ln[1] # "#" /\ Cardinality(Colons(ln)) # 1
LineMime(ln) == SubSeq(ln, 1, (CHOOSE i \in Colons(ln) : TRUE) - 1)
LineExt(ln) ==
    strip(SubSeq(ln, (CHOOSE i \in Colons(ln) : TRUE) + 1, Len(ln)), "*")

\* The line is in both tables, each way.
Registered(ln) ==
    /\ LineExt(ln) \in DOMAIN _ext2mime_map
    /\ LineMime(ln) \in Range(_ext2mime_map[LineExt(ln)])
    /\ LineMime(ln) \in DOMAIN _mime2ext_map
    /\ LineExt(ln) \in Range(_mime2ext_map[LineMime(ln)])

\* C8: after a load step every well-formed line the load read (every
\* well-formed line of the file, for a load that returned) has its
\* extension in extension_to_mime with its MIME type and its MIME type in
\* mime_to_extension with its extension; and in every state m is in
\* extension_to_mime[e] exactly when e is in mime_to_extension[m].
C8_RoundTrip ==
    /\ \A e \in DOMAIN _ext2mime_map : \A m \in Range(_ext2mime_map[e]) :
          m \in DOMAIN _mime2ext_map /\ e \in Range(_mime2ext_map[m])
    /\ \A m \in DOMAIN _mime2ext_map : \A e \in Range(_mime2ext_map[m]) :
          e \in DOMAIN _ext2mime_map /\ m \in Range(_ext2mime_map[e])
    /\ (loads >= 1 /\ mime_globs_file.is_file) =>
          \A i \in DOMAIN mime_globs_file.lines :
              (/\ IsWellFormed(mime_globs_file.lines[i])
               /\ \A j \in 1..(i - 1) : ~IsMalformed(mime_globs_file.lines[j]))
                 => Registered(mime_globs_file.lines[i])

\* C8, its case: two loads of a file that gives one extension two MIME
\* types have returned.
C8_Witness ==
    /\ loads >= 2
    /\ ~Raised(result.val)
    /\ \E e \in DOMAIN _ext2mime_map : Len(_ext2mime_map[e]) = 2

\* C9: for a path that is not a regular file once symlinks are resolved,
\* resolving the extension gives no result.
C9_RegularFileOnly ==
    (result.op \in {"extension", "exts"} /\ self.file.kind # "file") =>
        (result.val.t = "None" \/ (result.val.t = "str" /\ result.val.v = <<>>))

\* C10: a malformed line does not abort the load: the load step returns,
\* every well-formed line of the file is in both tables, and the
\* construction gives a path.
C10_MalformedLineSkipped ==
    (result.op \in {"_load", "__new__"} /\ mime_globs_file.is_file) =>
        /\ ~Raised(result.val)
        /\ \A i \in DOMAIN mime_globs_file.lines :
              IsWellFormed(mime_globs_file.lines[i])
                 => Registered(mime_globs_file.lines[i])
        /\ result.op = "__new__" => self # NoPath

\* C11: in every state reached by any number of load steps and
\* constructions, over any file (one that repeats a line included), no
\* entry of extension_to_mime holds the same MIME type twice.
C11_NoDuplicateMime ==
    \A e \in DOMAIN _ext2mime_map :
        \A i, j \in DOMAIN _ext2mime_map[e] :
            _ext2mime_map[e][i] = _ext2mime_map[e][j] => i = j

\* C11, its case: a file that holds the same well-formed line twice has
\* been loaded twice, and the load returned.
C11_Witness ==
    /\ loads >= 2
    /\ ~Raised(result.val)
    /\ mime_globs_file.is_file
    /\ \E i, j \in DOMAIN mime_globs_file.lines :
          /\ i < j
          /\ mime_globs_file.lines[i] = mime_globs_file.lines[j]
          /\ IsWellFormed(mime_globs_file.lines[i])
          /\ LineExt(mime_globs_file.lines[i]) \in DOMAIN _ext2mime_map

====
